---- MODULE Spec2Model ----
(***************************************************************************)
(* QueuedPool (src/QueuedPool.py): a pool of worker processes that pull    *)
(* argument lists from an input queue, apply a worker function and push    *)
(* the results to an output queue.  Three kinds of execution units take    *)
(* steps: the worker processes (_workerFunc), the thread that manages the  *)
(* pool (closePool, updateCoreNumber, getResults) and a thread that feeds  *)
(* the input queue (addJob).  Every statement that touches a shared object *)
(* (a SafeValue, a Queue, the Event, the Pool) is one step.                *)
(***************************************************************************)
EXTENDS Integers, Sequences, FiniteSets, TLC

----------------------------------------------------------------------------
(* Bounds of the model *)

\* number of addJob calls
MaxJobs == 2
\* number of updateCoreNumber calls
MaxResizes == 1
\* number of closePool calls
MaxCloses == 2
\* number of getResults calls
MaxGets == 2
\* execution units that call the methods of one SafeValue
MaxUnits == 2
\* calls made on that SafeValue
MaxCalls == 5

\* multiprocessing.cpu_count() of the modelled platform
CpuCount == 2
\* multiprocessing.Value('i', ...): a C int, 32 bits wide, whose arithmetic wraps
IntMax == 2147483647
IntMin == -IntMax - 1

----------------------------------------------------------------------------
(* Python values *)

PyNone == [tag |-> "None"]
PyInt(n) == [tag |-> "int", v |-> n]
PyList(s) == [tag |-> "list", items |-> s]

\* isinstance(job, list)
IsList(x) == x.tag = "list"

\* the `cores` arguments given to the constructor and to updateCoreNumber
CoreArgs == {PyNone} \cup {PyInt(n) : n \in -1..CpuCount}

\* the `job` arguments given to addJob: None, a bare value, an argument list
JobArgs == {PyNone, PyInt(1), PyList(<<PyInt(1)>>)}

\* The worker function handed to the pool is def func(x): return x + 1,
\* which raises TypeError on None.
FuncRaises(args) == args.items[1] = PyNone

func(args) == PyInt(args.items[1].v + 1)

\* a queue entry carries the ordinal of the addJob call that made it
\* (0 for the poison pill) next to the value that was put
Entry(n, value) == [id |-> n, args |-> value]

\* a result carries the ordinal of the addJob call it is the result of
Result(e) == [id |-> e.id, value |-> func(e.args)]

PoisonPill == Entry(0, PyNone)

NoEntry == Entry(-1, PyNone)

Workers == 1..CpuCount

\* the execution units that share a SafeValue
Units == 1..MaxUnits

\* SafeValue(initval): the arguments tried
InitVals == {IntMin, 0, IntMax}

\* set(n): the arguments tried
SetArgs == {0, IntMax}

----------------------------------------------------------------------------
VARIABLES
    cores,           \* self.cores (SafeValue)
    total_jobs,      \* self.total_jobs (SafeValue)
    active_workers,  \* self.active_workers (SafeValue)
    kill_workers,    \* self.kill_workers (Event): is it set
    input_queue,     \* self.input_queue
    output_queue,    \* self.output_queue
    pool,            \* self.pool: [state, n]
    wpc,             \* position of each worker process of self.pool
    wjob,            \* args held by each worker process
    cpc,             \* position of the managing thread
    carg,            \* the cores argument of __init__ or of the last updateCoreNumber
    pills,           \* closePool: poison pills still to put
    results,         \* getResults: its local list
    raised,          \* did the last call of the managing thread raise
    apc,             \* position of the feeding thread
    ajob,            \* addJob: its local job
    \* history
    yielded,         \* everything getResults has returned, in order
    arrivals,        \* everything ever put on output_queue, in order
    completed,       \* number of func invocations that returned
    failures,        \* number of func invocations that raised
    lost,            \* pulled entries whose worker was terminated, by operation
    calls,           \* number of calls made, by operation
    closeDone,       \* closePool has returned and no later call restarted a pool
    addSinceClose,   \* an addJob call started after the last closePool call started
    closeOnRunning,  \* was a pool running when the last closePool call started
    \* one SafeValue, its methods followed statement by statement
    sv_val,          \* self.val.value
    sv_lock,         \* self.lock: 0 when free, else the unit that holds it
    sv_pc,           \* position of each unit inside the method it called
    sv_op,           \* the method each unit called
    sv_n,            \* set: its argument n
    sv_reg,          \* the value each unit read from self.val.value
    \* history
    sv_initval,      \* the initval of __init__
    sv_incs,         \* increment calls that returned
    sv_decs,         \* decrement calls that returned
    sv_set,          \* has set been called
    sv_held,         \* the values the counter held when no call was inside the lock
    sv_calls         \* number of calls made

shared == <<cores, total_jobs, active_workers, kill_workers, input_queue, output_queue, pool>>
workerVars == <<wpc, wjob>>
managerVars == <<cpc, carg, pills, results, raised>>
feederVars == <<apc, ajob>>
history == <<yielded, arrivals, completed, failures, lost, calls, closeDone, addSinceClose, closeOnRunning>>
poolVars == <<shared, workerVars, managerVars, feederVars, history>>
svVars == <<sv_val, sv_lock, sv_pc, sv_op, sv_n, sv_reg, sv_initval, sv_incs, sv_decs, sv_set, sv_held, sv_calls>>
vars == <<poolVars, svVars>>

----------------------------------------------------------------------------
(* SafeValue *)

\* self.val.value += 1, on a C int
increment(v) == IF v = IntMax THEN IntMin ELSE v + 1

\* self.val.value -= 1, on a C int
decrement(v) == IF v = IntMin THEN IntMax ELSE v - 1

\* SafeValue.__init__(initval)
SafeValueNew(initval) ==
    /\ sv_val = initval
    /\ sv_lock = 0
    /\ sv_pc = [u \in Units |-> "idle"]
    /\ sv_op = [u \in Units |-> "none"]
    /\ sv_n = [u \in Units |-> 0]
    /\ sv_reg = [u \in Units |-> 0]
    /\ sv_initval = initval
    /\ sv_incs = 0
    /\ sv_decs = 0
    /\ sv_set = FALSE
    /\ sv_held = {initval}
    /\ sv_calls = 0

\* a unit calls increment(), decrement(), set(n) or value()
SafeValueCall(u, op, n) ==
    /\ sv_pc[u] = "idle"
    /\ sv_calls < MaxCalls
    /\ sv_pc' = [sv_pc EXCEPT ![u] = "acquire"]
    /\ sv_op' = [sv_op EXCEPT ![u] = op]
    /\ sv_n' = [sv_n EXCEPT ![u] = n]
    /\ sv_set' = (sv_set \/ op = "set")
    /\ sv_calls' = sv_calls + 1
    /\ UNCHANGED <<sv_val, sv_lock, sv_reg, sv_initval, sv_incs, sv_decs, sv_held>>
    /\ UNCHANGED poolVars

\* a unit that goes into the block without waiting for the lock
SafeValueAcquire_NoWait(u) ==
    /\ sv_pc[u] = "acquire"
    /\ sv_lock' = u
    /\ sv_pc' = [sv_pc EXCEPT ![u] = IF sv_op[u] = "set" THEN "store" ELSE "load"]
    /\ UNCHANGED <<sv_val, sv_op, sv_n, sv_reg, sv_initval, sv_incs, sv_decs, sv_set, sv_held, sv_calls>>
    /\ UNCHANGED poolVars

\* with self.lock: the unit waits until the lock is free and takes it
SafeValueAcquire(u) ==
    /\ sv_pc[u] = "acquire"
    /\ sv_lock = 0
    /\ sv_lock' = u
    /\ sv_pc' = [sv_pc EXCEPT ![u] = IF sv_op[u] = "set" THEN "store" ELSE "load"]
    /\ UNCHANGED <<sv_val, sv_op, sv_n, sv_reg, sv_initval, sv_incs, sv_decs, sv_set, sv_held, sv_calls>>
    /\ UNCHANGED poolVars

\* the read of self.val.value in `+= 1`, `-= 1` and `return self.val.value`
SafeValueLoad(u) ==
    /\ sv_pc[u] = "load"
    /\ sv_reg' = [sv_reg EXCEPT ![u] = sv_val]
    /\ sv_pc' = [sv_pc EXCEPT ![u] = IF sv_op[u] = "value" THEN "release" ELSE "store"]
    /\ UNCHANGED <<sv_val, sv_lock, sv_op, sv_n, sv_initval, sv_incs, sv_decs, sv_set, sv_held, sv_calls>>
    /\ UNCHANGED poolVars

\* the write of self.val.value in `+= 1`, `-= 1` and `= n`
SafeValueStore(u) ==
    /\ sv_pc[u] = "store"
    /\ sv_val' = CASE sv_op[u] = "increment" -> increment(sv_reg[u])
                   [] sv_op[u] = "decrement" -> decrement(sv_reg[u])
                   [] OTHER -> sv_n[u]
    /\ sv_pc' = [sv_pc EXCEPT ![u] = "release"]
    /\ UNCHANGED <<sv_lock, sv_op, sv_n, sv_reg, sv_initval, sv_incs, sv_decs, sv_set, sv_held, sv_calls>>
    /\ UNCHANGED poolVars

\* the end of the with block: the lock is released and the method returns
\* (value() returns what it read)
SafeValueRelease(u) ==
    /\ sv_pc[u] = "release"
    /\ sv_lock' = 0
    /\ sv_pc' = [sv_pc EXCEPT ![u] = "idle"]
    /\ sv_op' = [sv_op EXCEPT ![u] = "none"]
    /\ sv_incs' = IF sv_op[u] = "increment" THEN sv_incs + 1 ELSE sv_incs
    /\ sv_decs' = IF sv_op[u] = "decrement" THEN sv_decs + 1 ELSE sv_decs
    /\ sv_held' = sv_held \cup {sv_val}
    /\ sv_n' = [sv_n EXCEPT ![u] = 0]
    /\ sv_reg' = [sv_reg EXCEPT ![u] = 0]
    /\ UNCHANGED <<sv_val, sv_initval, sv_set, sv_calls>>
    /\ UNCHANGED poolVars

\* the methods of SafeValue, as run by one unit
SafeValue(u) ==
    \/ \E op \in {"increment", "decrement", "value"} : SafeValueCall(u, op, 0)
    \/ \E n \in SetArgs : SafeValueCall(u, "set", n)
    \/ SafeValueAcquire(u)
    \/ SafeValueLoad(u)
    \/ SafeValueStore(u)
    \/ SafeValueRelease(u)

(* multiprocessing.Queue *)

\* a queue that hands out the newest entry first
put_Front(q, x) == <<x>> \o q

put(q, x) == Append(q, x)

qsize(q) == Len(q)

empty(q) == Len(q) = 0

\* a get that leaves the head on the queue
get_Peek(q) == q

\* the Queue.get of a worker or of getResults removes the head
get(q) == Tail(q)

(* multiprocessing.Pool *)

\* Pool(processes, ...) raises ValueError unless processes >= 1
PoolRaises(n) == n < 1

NoPool == [state |-> "None", n |-> 0]

\* a running pool of n processes, each about to run the initializer
NewPool(n) == [state |-> "RUN", n |-> n]

Spawned(n) == [w \in Workers |-> IF w <= n THEN "start" ELSE "none"]

NoJobs == [w \in Workers |-> NoEntry]

\* entries held by the processes that pool.terminate() kills: pulled from
\* input_queue, their result not yet on output_queue
Held == Cardinality({w \in Workers : wpc[w] \in {"call", "put"}})

----------------------------------------------------------------------------
(* QueuedPool.__init__ *)

\* a fallback that also replaces a core count below one
ResolveCores_Corrected(c) == IF c = PyNone \/ c.v < 1 THEN CpuCount ELSE c.v

\* cores = multiprocessing.cpu_count() when cores is None
ResolveCores(c) == IF c = PyNone THEN CpuCount ELSE c.v

\* the state __init__ leaves: startPool has run, or has raised
QueuedPoolInit ==
    \E c \in CoreArgs :
        /\ cores = ResolveCores(c)
        /\ total_jobs = 0
        /\ active_workers = 0
        /\ kill_workers = FALSE
        /\ input_queue = <<>>
        /\ output_queue = <<>>
        /\ pool = IF PoolRaises(ResolveCores(c)) THEN NoPool ELSE NewPool(ResolveCores(c))
        /\ wpc = IF PoolRaises(ResolveCores(c)) THEN Spawned(0) ELSE Spawned(ResolveCores(c))
        /\ wjob = NoJobs
        /\ cpc = "idle"
        /\ carg = c
        /\ pills = 0
        /\ results = <<>>
        /\ raised = PoolRaises(ResolveCores(c))
        /\ apc = "idle"
        /\ ajob = NoEntry
        /\ yielded = <<>>
        /\ arrivals = <<>>
        /\ completed = 0
        /\ failures = 0
        /\ lost = [updateCoreNumber |-> 0, closePool |-> 0]
        /\ calls = [addJob |-> 0, updateCoreNumber |-> 0, closePool |-> 0, getResults |-> 0]
        /\ closeDone = FALSE
        /\ addSinceClose = FALSE
        /\ closeOnRunning = FALSE

\* a QueuedPool, and a SafeValue that nothing calls
Init == QueuedPoolInit /\ SafeValueNew(0)

\* __init__ returned, so there is an object to call methods on
Constructed == pool.state # "None"

----------------------------------------------------------------------------
(* QueuedPool._workerFunc, run by every process of the pool *)

\* self.active_workers.increment()
WorkerStart(w) ==
    /\ wpc[w] = "start"
    /\ active_workers' = increment(active_workers)
    /\ wpc' = [wpc EXCEPT ![w] = "get"]
    /\ UNCHANGED <<cores, total_jobs, kill_workers, input_queue, output_queue, pool>>
    /\ UNCHANGED <<wjob, managerVars, feederVars, history>>
    /\ UNCHANGED svVars

\* args = self.input_queue.get(True); if args is None: break
WorkerGet(w) ==
    /\ wpc[w] = "get"
    /\ ~empty(input_queue)
    /\ input_queue' = get(input_queue)
    /\ IF Head(input_queue).args = PyNone
          THEN /\ wpc' = [wpc EXCEPT ![w] = "exit"]
               /\ UNCHANGED wjob
          ELSE /\ wpc' = [wpc EXCEPT ![w] = "call"]
               /\ wjob' = [wjob EXCEPT ![w] = Head(input_queue)]
    /\ UNCHANGED <<cores, total_jobs, active_workers, kill_workers, output_queue, pool>>
    /\ UNCHANGED <<managerVars, feederVars, history>>
    /\ UNCHANGED svVars

\* a worker that swallows the exception and carries on with a default result
WorkerCall_Caught(w) ==
    /\ wpc[w] = "call"
    /\ wpc' = [wpc EXCEPT ![w] = "put"]
    /\ IF FuncRaises(wjob[w].args)
          THEN /\ wjob' = [wjob EXCEPT ![w] = Entry(wjob[w].id, PyList(<<PyInt(0)>>))]
               /\ failures' = failures + 1
               /\ UNCHANGED completed
          ELSE /\ completed' = completed + 1
               /\ UNCHANGED <<wjob, failures>>
    /\ UNCHANGED <<shared, managerVars, feederVars>>
    /\ UNCHANGED <<yielded, arrivals, lost, calls, closeDone, addSinceClose, closeOnRunning>>
    /\ UNCHANGED svVars

\* result = func(*args); an exception ends the process
WorkerCall(w) ==
    /\ wpc[w] = "call"
    /\ IF FuncRaises(wjob[w].args)
          THEN /\ wpc' = [wpc EXCEPT ![w] = "dead"]
               /\ wjob' = [wjob EXCEPT ![w] = NoEntry]
               /\ failures' = failures + 1
               /\ UNCHANGED completed
          ELSE /\ wpc' = [wpc EXCEPT ![w] = "put"]
               /\ completed' = completed + 1
               /\ UNCHANGED <<wjob, failures>>
    /\ UNCHANGED <<shared, managerVars, feederVars>>
    /\ UNCHANGED <<yielded, arrivals, lost, calls, closeDone, addSinceClose, closeOnRunning>>
    /\ UNCHANGED svVars

\* self.output_queue.put(result)
WorkerPut(w) ==
    /\ wpc[w] = "put"
    /\ output_queue' = put(output_queue, Result(wjob[w]))
    /\ arrivals' = Append(arrivals, Result(wjob[w]))
    /\ wjob' = [wjob EXCEPT ![w] = NoEntry]
    /\ wpc' = [wpc EXCEPT ![w] = "check"]
    /\ UNCHANGED <<cores, total_jobs, active_workers, kill_workers, input_queue, pool>>
    /\ UNCHANGED <<managerVars, feederVars>>
    /\ UNCHANGED <<yielded, completed, failures, lost, calls, closeDone, addSinceClose, closeOnRunning>>
    /\ UNCHANGED svVars

\* a worker that goes on to the next job whatever the stop flag says
WorkerCheck_Ignore(w) ==
    /\ wpc[w] = "check"
    /\ wpc' = [wpc EXCEPT ![w] = "get"]
    /\ UNCHANGED <<shared, wjob, managerVars, feederVars, history>>
    /\ UNCHANGED svVars

\* if self.kill_workers.is_set(): break
WorkerCheck(w) ==
    /\ wpc[w] = "check"
    /\ wpc' = [wpc EXCEPT ![w] = IF kill_workers THEN "exit" ELSE "get"]
    /\ UNCHANGED <<shared, wjob, managerVars, feederVars, history>>
    /\ UNCHANGED svVars

\* self.active_workers.decrement(); the initializer returns and the process
\* stays in the pool, waiting for tasks that never come
WorkerExit(w) ==
    /\ wpc[w] = "exit"
    /\ active_workers' = decrement(active_workers)
    /\ wpc' = [wpc EXCEPT ![w] = "done"]
    /\ UNCHANGED <<cores, total_jobs, kill_workers, input_queue, output_queue, pool>>
    /\ UNCHANGED <<wjob, managerVars, feederVars, history>>
    /\ UNCHANGED svVars

\* a running Pool replaces a process that died by a new one, which runs
\* the initializer again
WorkerRespawn(w) ==
    /\ wpc[w] = "dead"
    /\ pool.state = "RUN"
    /\ wpc' = [wpc EXCEPT ![w] = "start"]
    /\ UNCHANGED <<shared, wjob, managerVars, feederVars, history>>
    /\ UNCHANGED svVars

workerFunc(w) ==
    \/ WorkerStart(w)
    \/ WorkerGet(w)
    \/ WorkerCall(w)
    \/ WorkerPut(w)
    \/ WorkerCheck(w)
    \/ WorkerExit(w)
    \/ WorkerRespawn(w)

----------------------------------------------------------------------------
(* QueuedPool.addJob, called by the feeding thread *)

\* a wrapping that lets None through as it is
Wrap_KeepNone(job) == IF IsList(job) \/ job = PyNone THEN job ELSE PyList(<<job>>)

\* if not isinstance(job, list): job = [job]
Wrap(job) == IF IsList(job) THEN job ELSE PyList(<<job>>)

\* an addJob that puts the job first and counts it afterwards
AddJobCount_PutFirst(job) ==
    /\ Constructed
    /\ apc = "idle"
    /\ calls.addJob < MaxJobs
    /\ input_queue' = put(input_queue, Entry(calls.addJob + 1, Wrap(job)))
    /\ ajob' = Entry(calls.addJob + 1, Wrap(job))
    /\ apc' = "put"
    /\ calls' = [calls EXCEPT !.addJob = @ + 1]
    /\ addSinceClose' = TRUE
    /\ UNCHANGED <<cores, total_jobs, active_workers, kill_workers, output_queue, pool>>
    /\ UNCHANGED <<workerVars, managerVars>>
    /\ UNCHANGED <<yielded, arrivals, completed, failures, lost, closeDone, closeOnRunning>>
    /\ UNCHANGED svVars

\* self.total_jobs.increment(), then the wrapping
AddJobCount(job) ==
    /\ Constructed
    /\ apc = "idle"
    /\ calls.addJob < MaxJobs
    /\ total_jobs' = increment(total_jobs)
    /\ ajob' = Entry(calls.addJob + 1, Wrap(job))
    /\ apc' = "put"
    /\ calls' = [calls EXCEPT !.addJob = @ + 1]
    /\ addSinceClose' = TRUE
    /\ UNCHANGED <<cores, active_workers, kill_workers, input_queue, output_queue, pool>>
    /\ UNCHANGED <<workerVars, managerVars>>
    /\ UNCHANGED <<yielded, arrivals, completed, failures, lost, closeDone, closeOnRunning>>
    /\ UNCHANGED svVars

\* self.input_queue.put(job)
AddJobPut ==
    /\ apc = "put"
    /\ input_queue' = put(input_queue, ajob)
    /\ ajob' = NoEntry
    /\ apc' = "idle"
    /\ UNCHANGED <<cores, total_jobs, active_workers, kill_workers, output_queue, pool>>
    /\ UNCHANGED <<workerVars, managerVars, history>>
    /\ UNCHANGED svVars

addJob == (\E job \in JobArgs : AddJobCount(job)) \/ AddJobPut

----------------------------------------------------------------------------
(* QueuedPool.startPool *)

\* self.pool = multiprocessing.Pool(self.cores.value(), self._workerFunc, ...)
startPool(n) ==
    IF PoolRaises(n)
       THEN /\ raised' = TRUE
            /\ UNCHANGED <<pool, wpc, wjob>>
       ELSE /\ raised' = FALSE
            /\ pool' = NewPool(n)
            /\ wpc' = Spawned(n)
            /\ wjob' = NoJobs

\* self.pool.close(); self.pool.terminate(); self.pool.join(): every process
\* of the pool is killed where it stands
Terminate(op) ==
    /\ pool' = [pool EXCEPT !.state = "TERMINATE"]
    /\ wpc' = Spawned(0)
    /\ wjob' = NoJobs
    /\ lost' = [lost EXCEPT ![op] = @ + Held]

----------------------------------------------------------------------------
(* QueuedPool.closePool, called by the managing thread *)

\* if self.pool is not None
HasPool == pool.state # "None"

\* a completion check that does not wait for the results
AllJobsDone_AtMost == qsize(output_queue) <= total_jobs

\* if self.output_queue.qsize() == self.total_jobs.value()
AllJobsDone == qsize(output_queue) = total_jobs

\* while self.input_queue.qsize(): time.sleep(0.1)
PillsSwallowed == qsize(input_queue) = 0

ClosePoolCall ==
    /\ Constructed
    /\ cpc = "idle"
    /\ calls.closePool < MaxCloses
    /\ calls' = [calls EXCEPT !.closePool = @ + 1]
    /\ cpc' = IF HasPool THEN "cp_poll" ELSE "idle"
    /\ raised' = FALSE
    /\ closeDone' = FALSE
    /\ addSinceClose' = FALSE
    /\ closeOnRunning' = (pool.state = "RUN")
    /\ UNCHANGED <<shared, workerVars, feederVars, carg, pills, results>>
    /\ UNCHANGED <<yielded, arrivals, completed, failures, lost>>
    /\ UNCHANGED svVars

\* the polling loop is left when all jobs are done; range(self.cores.value())
ClosePoolPoll ==
    /\ cpc = "cp_poll"
    /\ AllJobsDone
    /\ pills' = cores
    /\ cpc' = IF cores > 0 THEN "cp_pills" ELSE "cp_wait"
    /\ UNCHANGED <<shared, workerVars, feederVars, history, carg, results, raised>>
    /\ UNCHANGED svVars

\* self.input_queue.put(None)
ClosePoolPill ==
    /\ cpc = "cp_pills"
    /\ input_queue' = put(input_queue, PoisonPill)
    /\ pills' = pills - 1
    /\ cpc' = IF pills > 1 THEN "cp_pills" ELSE "cp_wait"
    /\ UNCHANGED <<cores, total_jobs, active_workers, kill_workers, output_queue, pool>>
    /\ UNCHANGED <<workerVars, feederVars, history, carg, results, raised>>
    /\ UNCHANGED svVars

ClosePoolWait ==
    /\ cpc = "cp_wait"
    /\ PillsSwallowed
    /\ cpc' = "cp_term"
    /\ UNCHANGED <<shared, workerVars, feederVars, history, carg, pills, results, raised>>
    /\ UNCHANGED svVars

ClosePoolTerminate ==
    /\ cpc = "cp_term"
    /\ Terminate("closePool")
    /\ cpc' = "idle"
    /\ closeDone' = TRUE
    /\ UNCHANGED <<cores, total_jobs, active_workers, kill_workers, input_queue, output_queue>>
    /\ UNCHANGED <<feederVars, carg, pills, results, raised>>
    /\ UNCHANGED <<yielded, arrivals, completed, failures, calls, addSinceClose, closeOnRunning>>
    /\ UNCHANGED svVars

closePool ==
    \/ ClosePoolCall
    \/ ClosePoolPoll
    \/ ClosePoolPill
    \/ ClosePoolWait
    \/ ClosePoolTerminate

----------------------------------------------------------------------------
(* QueuedPool.updateCoreNumber, called by the managing thread *)

\* while self.active_workers.value() > 0: time.sleep(0.1)
WorkersExited == ~(active_workers > 0)

\* self.kill_workers.set()
UpdateCoreNumberCall(c) ==
    /\ Constructed
    /\ cpc = "idle"
    /\ calls.updateCoreNumber < MaxResizes
    /\ calls' = [calls EXCEPT !.updateCoreNumber = @ + 1]
    /\ kill_workers' = TRUE
    /\ carg' = c
    /\ cpc' = "uc_wait"
    /\ raised' = FALSE
    /\ closeDone' = FALSE
    /\ UNCHANGED <<cores, total_jobs, active_workers, input_queue, output_queue, pool>>
    /\ UNCHANGED <<workerVars, feederVars, pills, results>>
    /\ UNCHANGED <<yielded, arrivals, completed, failures, lost, addSinceClose, closeOnRunning>>
    /\ UNCHANGED svVars

UpdateCoreNumberWait ==
    /\ cpc = "uc_wait"
    /\ WorkersExited
    /\ cpc' = "uc_term"
    /\ UNCHANGED <<shared, workerVars, feederVars, history, carg, pills, results, raised>>
    /\ UNCHANGED svVars

UpdateCoreNumberTerminate ==
    /\ cpc = "uc_term"
    /\ Terminate("updateCoreNumber")
    /\ cpc' = "uc_start"
    /\ UNCHANGED <<cores, total_jobs, active_workers, kill_workers, input_queue, output_queue>>
    /\ UNCHANGED <<feederVars, carg, pills, results, raised>>
    /\ UNCHANGED <<yielded, arrivals, completed, failures, calls, closeDone, addSinceClose, closeOnRunning>>
    /\ UNCHANGED svVars

\* self.kill_workers.clear(); self.cores.set(cores); self.startPool()
UpdateCoreNumberStart ==
    /\ cpc = "uc_start"
    /\ kill_workers' = FALSE
    /\ cores' = ResolveCores(carg)
    /\ startPool(ResolveCores(carg))
    /\ cpc' = "idle"
    /\ UNCHANGED <<total_jobs, active_workers, input_queue, output_queue>>
    /\ UNCHANGED <<feederVars, history, carg, pills, results>>
    /\ UNCHANGED svVars

updateCoreNumber ==
    \/ \E c \in CoreArgs : UpdateCoreNumberCall(c)
    \/ UpdateCoreNumberWait
    \/ UpdateCoreNumberTerminate
    \/ UpdateCoreNumberStart

----------------------------------------------------------------------------
(* QueuedPool.getResults, called by the managing thread *)

\* results = []; if not self.output_queue.empty()
GetResultsCall ==
    /\ Constructed
    /\ cpc = "idle"
    /\ calls.getResults < MaxGets
    /\ calls' = [calls EXCEPT !.getResults = @ + 1]
    /\ results' = <<>>
    /\ cpc' = IF ~empty(output_queue) THEN "gr_loop" ELSE "idle"
    /\ raised' = FALSE
    /\ UNCHANGED <<shared, workerVars, feederVars, carg, pills>>
    /\ UNCHANGED <<yielded, arrivals, completed, failures, lost, closeDone, addSinceClose, closeOnRunning>>
    /\ UNCHANGED svVars

\* results.append(self.output_queue.get(False)), until get raises Empty;
\* then return results
GetResultsLoop ==
    /\ cpc = "gr_loop"
    /\ IF ~empty(output_queue)
          THEN /\ results' = Append(results, Head(output_queue))
               /\ output_queue' = get(output_queue)
               /\ UNCHANGED <<cpc, yielded>>
          ELSE /\ yielded' = yielded \o results
               /\ results' = <<>>
               /\ cpc' = "idle"
               /\ UNCHANGED output_queue
    /\ UNCHANGED <<cores, total_jobs, active_workers, kill_workers, input_queue, pool>>
    /\ UNCHANGED <<workerVars, feederVars, carg, pills, raised>>
    /\ UNCHANGED <<arrivals, completed, failures, lost, calls, closeDone, addSinceClose, closeOnRunning>>
    /\ UNCHANGED svVars

getResults == GetResultsCall \/ GetResultsLoop

----------------------------------------------------------------------------
Next ==
    \/ \E w \in Workers : workerFunc(w)
    \/ addJob
    \/ closePool
    \/ updateCoreNumber
    \/ getResults

Spec == Init /\ [][Next]_vars

\* one SafeValue of any initval, called from every unit at once
SafeValueInit == QueuedPoolInit /\ \E initval \in InitVals : SafeValueNew(initval)

SafeValueNext == \E u \in Units : SafeValue(u)

SafeValueSpec == SafeValueInit /\ [][SafeValueNext]_vars

\* the steps a started call of the managing thread goes on to take
ManagerStep ==
    \/ ClosePoolPoll
    \/ ClosePoolPill
    \/ ClosePoolWait
    \/ ClosePoolTerminate
    \/ UpdateCoreNumberWait
    \/ UpdateCoreNumberTerminate
    \/ UpdateCoreNumberStart
    \/ GetResultsLoop

\* The operating system runs every process and thread that can take a step:
\* each worker process, a call of the managing thread once started, and a
\* started addJob.  Nothing obliges the callers to start a call.
FairSpec ==
    /\ Spec
    /\ \A w \in Workers : WF_vars(workerFunc(w))
    /\ WF_vars(ManagerStep)
    /\ WF_vars(AddJobPut)

----------------------------------------------------------------------------
(* Claims *)

\* the results getResults has returned, is collecting, or has yet to collect
Collected == yielded \o results \o output_queue

Ids(q) == {q[i].id : i \in 1..Len(q)}

InLoop(w) == wpc[w] \in {"start", "get", "call", "put", "check", "exit"}

InClosePool == cpc \in {"cp_poll", "cp_pills", "cp_wait", "cp_term"}

\* C1: once closePool has returned, with no worker-function failure and every
\* addJob call started before the closePool call, the results returned by
\* getResults together with those still to be collected are exactly one per
\* submitted job: as many as total_jobs, carrying the ordinals 1..total_jobs.
C1_ExactlyNResults ==
    (closeDone /\ ~addSinceClose /\ failures = 0) =>
        /\ Len(Collected) = total_jobs
        /\ Ids(Collected) = 1..total_jobs

\* C1 witness: closePool has returned after two jobs and getResults has
\* returned both results.
C1_Witness ==
    /\ closeDone /\ ~addSinceClose /\ failures = 0
    /\ cpc = "idle"
    /\ total_jobs = 2
    /\ Len(yielded) = 2

\* C2: with no worker-function failure, no job is dropped when
\* updateCoreNumber tears the old pool down, and once a closePool that follows
\* a resize has returned there is exactly one result per submitted job.
C2_NoJobLostAcrossResize ==
    failures = 0 =>
        /\ lost.updateCoreNumber = 0
        /\ (closeDone /\ ~addSinceClose /\ calls.updateCoreNumber > 0)
              => Len(Collected) = total_jobs

\* C3: whenever closePool has returned, active_workers reads 0 and no worker
\* is in its loop (stated for runs with no resize and no worker-function
\* failure, where nothing else touches the counter).
C3_CloseLeavesNoActiveWorker ==
    (closeDone /\ calls.updateCoreNumber = 0 /\ failures = 0) =>
        /\ active_workers = 0
        /\ \A w \in Workers : ~InLoop(w)

\* C4: a closePool call on a running pool, made after addJob and getResults
\* calls only, returns, unless a worker function fails or an addJob call
\* starts during it.
C4_ClosePoolReturns ==
    (cpc = "cp_poll" /\ closeOnRunning /\ calls.updateCoreNumber = 0)
        ~> (cpc = "idle" \/ failures > 0 \/ addSinceClose)

\* C5: an updateCoreNumber call on a running pool gets past its wait for the
\* workers to exit and returns, unless a worker function fails.
C5_UpdateCoreNumberReturns ==
    (cpc = "uc_wait" /\ pool.state = "RUN")
        ~> (cpc = "idle" \/ failures > 0)

\* C6: no phantom results: the results returned by getResults plus those
\* waiting in the result queue never outnumber the worker-function
\* invocations that have returned, which never outnumber total_jobs.
C6_NoPhantomResults ==
    /\ Len(Collected) <= completed
    /\ completed <= total_jobs

\* C6 witness: getResults has returned one result while a second invocation
\* has returned and its result is not yet on the result queue.
C6_Witness ==
    /\ Len(yielded) = 1
    /\ Len(Collected) = 1
    /\ completed = 2

\* C7: getResults returns the results in their order of arrival, each once:
\* what it has returned, what the running call holds and what is left on the
\* queue are, in this order, everything that ever arrived; and the running
\* call can always take its next step.
C7_ArrivalOrderOnce ==
    /\ Collected = arrivals
    /\ \A i, j \in 1..Len(yielded) : i # j => yielded[i] # yielded[j]
    /\ cpc = "gr_loop" => ENABLED GetResultsLoop

\* C7 witness: a second getResults call holds the result of job 1 after a
\* first call returned the result of job 2, which arrived first.
C7_Witness ==
    /\ cpc = "gr_loop"
    /\ Len(yielded) = 1 /\ yielded[1].id = 2
    /\ Len(results) = 1 /\ results[1].id = 1

\* C8: a closePool call started when no pool is running puts no poison pill
\* on the job queue.
C8_CloseWithoutPoolIsNoOp ==
    (InClosePool /\ ~closeOnRunning) =>
        \A i \in 1..Len(input_queue) : input_queue[i] # PoisonPill

InUpdateCoreNumber == cpc \in {"uc_wait", "uc_term", "uc_start"}

\* C9: no step of updateCoreNumber changes total_jobs, the result queue or
\* the job queue, and when updateCoreNumber(k) with k >= 1 returns (no worker
\* function having failed) cores is k, the stop flag is clear, a new pool of
\* k workers has been started and every job that left the job queue was
\* processed: none was held by a worker the call terminated.
C9_ResizeFrame ==
    [][ /\ (cpc' # cpc /\ (InUpdateCoreNumber \/ cpc' = "uc_wait")) =>
              /\ total_jobs' = total_jobs
              /\ output_queue' = output_queue
              /\ input_queue' = input_queue
        /\ (cpc = "uc_start" /\ cpc' = "idle" /\ carg # PyNone /\ failures = 0) =>
              (carg.v >= 1 =>
                  /\ cores' = carg.v
                  /\ ~kill_workers'
                  /\ pool' = [state |-> "RUN", n |-> carg.v]
                  /\ \A w \in Workers : wpc'[w] = (IF w <= carg.v THEN "start" ELSE "none")
                  /\ lost'.updateCoreNumber = 0)
      ]_vars

\* C10 as claimed: the core-count counter of a constructed pool is always at
\* least 1 and a pool is never running with fewer than one worker.
C10_CoreCountAtLeastOne ==
    Constructed => (cores >= 1 /\ (pool.state = "RUN" => pool.n >= 1))

\* C10 as amended: outside a resize the core-count counter holds the cores
\* argument last given, replaced by the available parallelism only when it
\* is None; a count below one is kept as given and no pool runs with it; a
\* running pool has as many workers as the counter says, at least one.
C10_InvalidCoresNotCorrected ==
    /\ ~InUpdateCoreNumber =>
          cores = (IF carg = PyNone THEN CpuCount ELSE carg.v)
    /\ cores < 1 => pool.state # "RUN"
    /\ pool.state = "RUN" => (pool.n = cores /\ pool.n >= 1)

\* C10 witness: updateCoreNumber(0) has raised and left the counter at 0.
C10_Witness ==
    /\ Constructed
    /\ cpc = "idle"
    /\ raised
    /\ carg = PyInt(0)
    /\ cores = 0

PillsQueued == Cardinality({i \in 1..Len(input_queue) : input_queue[i] = PoisonPill})

\* the workers of the pool that are in their loop and have pulled no pill
Looping == Cardinality({w \in Workers : wpc[w] \in {"start", "get", "call", "put", "check"}})

PillsToPut == IF cpc = "cp_pills" THEN pills ELSE 0

InPillPhase == cpc \in {"cp_pills", "cp_wait", "cp_term"}

\* C11: poison-pill count matching: from the moment closePool starts to put
\* pills until it returns, the pills still to put plus the pills on the job
\* queue are as many as the workers of the pool still in their loop (no worker
\* function having failed), and no pill is on the job queue once closePool
\* has returned.
C11_PillCountMatchesWorkers ==
    /\ (InPillPhase /\ failures = 0) => PillsToPut + PillsQueued = Looping
    /\ closeDone => PillsQueued = 0

\* C12: when updateCoreNumber has passed its wait for active_workers to read
\* 0 and is about to tear the pool down, no worker of the pool is about to
\* pull a job, holds a pulled job or executes the worker function (no worker
\* function having failed).
C12_CounterZeroMeansWorkersGone ==
    (cpc = "uc_term" /\ failures = 0) =>
        \A w \in Workers : wpc[w] \notin {"get", "call", "put"}

JobsQueued == Cardinality({i \in 1..Len(input_queue) : input_queue[i] # PoisonPill})

\* every job counted so far has produced a result: none is about to be put,
\* waits on the job queue or is held by a worker
Quiescent ==
    /\ Len(arrivals) = total_jobs
    /\ apc # "put"
    /\ JobsQueued = 0
    /\ Held = 0

\* C13: while closePool polls, the equality of result-queue size and
\* total-jobs counter holds exactly in the states where every job submitted
\* so far has produced a result, so the first pill is put only from such a
\* state.
C13_EqualityIffAllJobsDone ==
    cpc = "cp_poll" => (AllJobsDone <=> Quiescent)

\* C14: addJob counts a job before it puts it: in every state total_jobs is
\* at least the jobs on the job queue plus the jobs held by workers plus the
\* results ever produced, so the equality closePool polls for never holds
\* while a counted job has not produced its result.
C14_CountedBeforePushed ==
    /\ total_jobs >= JobsQueued + Held + Len(arrivals)
    /\ AllJobsDone => Quiescent

\* C14 witness: closePool polls while addJob has counted a second job and
\* not yet put it: nothing is queued or held, and the check cannot pass.
C14_Witness ==
    /\ cpc = "cp_poll"
    /\ apc = "put"
    /\ total_jobs = 2
    /\ qsize(output_queue) = 1
    /\ JobsQueued = 0
    /\ Held = 0

\* C15: a worker tests the stop flag only after it has put the result of the
\* job it ran: it comes to the test from the put alone; with the flag set it
\* goes from the test to its exit and pulls no further job; it comes to the
\* decrement holding no job, from the test or from a pill; and every step
\* leaves the job queue in order: unchanged, without its head, or with one
\* entry appended.
C15_StopFlagAfterPut ==
    [][ /\ \A w \in Workers :
              /\ (wpc'[w] = "check" /\ wpc[w] # "check") =>
                    /\ wpc[w] = "put"
                    /\ output_queue' = Append(output_queue, Result(wjob[w]))
              /\ (kill_workers /\ wpc[w] = "check" /\ wpc'[w] \notin {"check", "none"}) =>
                    wpc'[w] = "exit"
              /\ (wpc'[w] = "exit" /\ wpc[w] # "exit") =>
                    /\ wpc[w] \in {"check", "get"}
                    /\ wpc[w] = "get" => Head(input_queue) = PoisonPill
                    /\ wjob'[w] = NoEntry
        /\ \/ input_queue' = input_queue
           \/ input_queue # <<>> /\ input_queue' = Tail(input_queue)
           \/ /\ Len(input_queue') = Len(input_queue) + 1
              /\ SubSeq(input_queue', 1, Len(input_queue)) = input_queue
      ]_vars

\* C15 witness: with the stop flag set a worker has put the result of one job
\* and is about to decrement the counter, while the other job is still queued.
C15_Witness ==
    /\ kill_workers
    /\ cpc = "uc_wait"
    /\ \E w \in Workers : wpc[w] = "exit"
    /\ Len(arrivals) = 1
    /\ JobsQueued = 1

\* C16: a job whose worker-function invocation failed yields no result: the
\* results ever produced plus the failed invocations never outnumber
\* total_jobs; and once an invocation has failed the result queue stays
\* shorter than total_jobs, so a closePool that polls can never leave its
\* polling loop: it puts no pill and does not return.
C16_FailureHangsClose ==
    /\ Len(arrivals) + failures <= total_jobs
    /\ failures > 0 =>
          /\ qsize(output_queue) < total_jobs
          /\ cpc = "cp_poll" => ~ENABLED ClosePoolPoll

\* C16 witness: one of two jobs has failed, the other has produced its
\* result, nothing is queued or held, and closePool polls.
C16_Witness ==
    /\ failures = 1
    /\ cpc = "cp_poll"
    /\ total_jobs = 2
    /\ Len(arrivals) = 1
    /\ apc = "idle"
    /\ JobsQueued = 0
    /\ Held = 0

InRange32(a, n) == IF n >= 0 THEN a <= IntMax - n ELSE a >= IntMin - n

\* a + n reduced to the range of a C int
Wrap32(a, n) ==
    IF InRange32(a, n) THEN a + n
    ELSE IF n > 0 THEN IntMin + ((n - 1) - (IntMax - a))
    ELSE IntMax - (((0 - n) - 1) - (a - IntMin))

\* value() has read the counter and is about to return what it read
Reading(u) == sv_op[u] = "value" /\ sv_pc[u] = "release"

\* C18 as stated: with no set call, after i increment and d decrement calls
\* value() returns initval + i - d, a value the counter held between
\* operations.
C18_ValueIsSum ==
    ~sv_set =>
        \A u \in Units :
            Reading(u) =>
                /\ InRange32(sv_initval, sv_incs - sv_decs)
                /\ sv_reg[u] = sv_initval + (sv_incs - sv_decs)
                /\ sv_reg[u] \in sv_held

\* C18 amended: with no set call, after i increment and d decrement calls
\* value() returns initval + i - d reduced to the range of a 32-bit signed
\* integer (initval + i - d itself whenever that lies in the range): no update
\* is lost; and what it returns is a value the counter held between
\* operations.
C18_NoLostUpdate ==
    ~sv_set =>
        \A u \in Units :
            Reading(u) =>
                /\ sv_reg[u] = Wrap32(sv_initval, sv_incs - sv_decs)
                /\ sv_reg[u] \in sv_held

\* C18 witness: two increments and a decrement of a counter that started at
\* the largest C int have returned, value() has read the wrapped sum, and
\* another unit is waiting for the lock to decrement.
C18_Witness ==
    /\ ~sv_set
    /\ sv_initval = IntMax
    /\ sv_incs = 2
    /\ sv_decs = 1
    /\ \E u, t \in Units :
          /\ Reading(u)
          /\ sv_reg[u] = IntMin
          /\ sv_pc[t] = "acquire"
          /\ sv_op[t] = "decrement"

====
